---- MODULE Spec2Model ----
(***************************************************************************)
(* Model of the study-plan MCP server (src/index.ts).                      *)
(*                                                                         *)
(* Text is modelled as a sequence of one-character strings, so that        *)
(* split, trim, toLowerCase, includes and the /^KA\s*\d+\s*-/ pattern are  *)
(* computed character by character as the JavaScript does.                 *)
(*                                                                         *)
(* A JavaScript number is modelled as an integer count of 1/Denom units    *)
(* (weeksDuration = 5 with Denom = 2 is the number 2.5): zod's z.number()  *)
(* accepts non-integers, so the model has to be able to hold one.          *)
(***************************************************************************)
EXTENDS Integers, Sequences, FiniteSets, TLC

(***************************************************************************)
(* Bounds of the model.                                                    *)
(***************************************************************************)
\* numbers are multiples of 1/Denom
Denom == 2
\* longest knowledge base, in lines, of the generateWeeklyPlan specification
MaxLines == 2
\* longest focusAreas list of the generateWeeklyPlan specification
MaxFocus == 1
\* weeks 1..MaxWeeks (and the schema's maximum) are tried
MaxWeeks == 5
\* tool invocations per run of the server specification
MaxCalls == 2
\* concurrent generateStudyPlan handlers
NumProcs == 2

(***************************************************************************)
(* Program constants.                                                      *)
(***************************************************************************)
\* z.number().min(1)
WeeksMin == 1
\* z.number().max(52)
WeeksMax == 52
\* z.array(z.string()).min(1)
FocusMin == 1
\* z.array(z.string()).max(5)
FocusMax == 5
\* studyPlanContent.slice(0, 500)
PreviewLen == 500

Roles == {"frontend", "backend", "fullstack", "devops", "ml-engineer"}

(***************************************************************************)
(* Characters and strings.                                                 *)
(***************************************************************************)
LowerLetters ==
  <<"a","b","c","d","e","f","g","h","i","j","k","l","m",
    "n","o","p","q","r","s","t","u","v","w","x","y","z">>
UpperLetters ==
  <<"A","B","C","D","E","F","G","H","I","J","K","L","M",
    "N","O","P","Q","R","S","T","U","V","W","X","Y","Z">>
Digits == {"0","1","2","3","4","5","6","7","8","9"}
\* the \s class, as far as the model's alphabet goes
Whitespace == {" ", "\t"}

Min(a, b) == IF a <= b THEN a ELSE b

\* String.prototype.toLowerCase, one character
LowerChar(c) ==
  IF \E i \in 1..26 : UpperLetters[i] = c
    THEN LowerLetters[CHOOSE i \in 1..26 : UpperLetters[i] = c]
    ELSE c

\* String.prototype.toLowerCase
toLowerCase(s) == [i \in 1..Len(s) |-> LowerChar(s[i])]

\* String.prototype.includes: needle occurs in hay at some offset
includes(hay, needle) ==
  \E off \in 0..(Len(hay) - Len(needle)) :
    SubSeq(hay, off + 1, off + Len(needle)) = needle

\* index of the first occurrence of character c in s at or after i; Len(s)+1 if none
RECURSIVE IndexOf(_, _, _)
IndexOf(s, c, i) ==
  IF i > Len(s) THEN Len(s) + 1
  ELSE IF s[i] = c THEN i
  ELSE IndexOf(s, c, i + 1)

\* String.prototype.split(sep) for a one-character separator
RECURSIVE split(_, _)
split(s, sep) ==
  LET k == IndexOf(s, sep, 1) IN
    IF k > Len(s) THEN <<s>>
    ELSE <<SubSeq(s, 1, k - 1)>> \o split(SubSeq(s, k + 1, Len(s)), sep)

\* Array.prototype.join(sep)
RECURSIVE join(_, _)
join(parts, sep) ==
  IF Len(parts) = 0 THEN <<>>
  ELSE IF Len(parts) = 1 THEN parts[1]
  ELSE parts[1] \o sep \o join(Tail(parts), sep)

\* first index at or after i whose character is not in set; Len(s)+1 if none
RECURSIVE SkipChars(_, _, _)
SkipChars(s, i, set) ==
  IF i > Len(s) THEN Len(s) + 1
  ELSE IF s[i] \in set THEN SkipChars(s, i + 1, set)
  ELSE i

\* last index at or before i whose character is not in set; 0 if none
RECURSIVE SkipCharsBack(_, _, _)
SkipCharsBack(s, i, set) ==
  IF i < 1 THEN 0
  ELSE IF s[i] \in set THEN SkipCharsBack(s, i - 1, set)
  ELSE i

\* String.prototype.trim
trim(s) ==
  LET a == SkipChars(s, 1, Whitespace)
      b == SkipCharsBack(s, Len(s), Whitespace)
  IN IF a > b THEN <<>> ELSE SubSeq(s, a, b)

\* /^KA\s*\d+\s*-/ : the index of the "-" that ends the match, 0 if no match
MatchKA(s) ==
  IF Len(s) < 2 \/ SubSeq(s, 1, 2) # <<"K", "A">> THEN 0
  ELSE LET d1 == SkipChars(s, 3, Whitespace)
           d2 == SkipChars(s, d1, Digits)
           m  == SkipChars(s, d2, Whitespace)
       IN IF d2 > d1 /\ m <= Len(s) /\ s[m] = "-" THEN m ELSE 0

\* line.match(/^KA\s*\d+\s*-/) as a truth value
matchesKA(line) == MatchKA(line) > 0

\* s.replace(/^KA\s*\d+\s*-\s*/, '')
replaceKA(s) ==
  LET m == MatchKA(s) IN
    IF m = 0 THEN s
    ELSE SubSeq(s, SkipChars(s, m + 1, Whitespace), Len(s))

(***************************************************************************)
(* generateWeeklyPlan (src/index.ts 103-137).                              *)
(* The plan text is a sequence of lines, each a record; the interpolated   *)
(* values (week number, concept title, role) are the record's fields.      *)
(***************************************************************************)
PlanLine(kind, num, text, role) ==
  [kind |-> kind, num |-> num, text |-> text, role |-> role]

\* a mutant of the filter: the focus area is looked up case-sensitively
lineIsRelevantCaseSensitive(line, focusAreas) ==
  /\ matchesKA(line)
  /\ \E k \in 1..Len(focusAreas) : includes(line, focusAreas[k])

\* the filter predicate of lines 107-108
lineIsRelevant(line, focusAreas) ==
  /\ matchesKA(line)
  /\ \E k \in 1..Len(focusAreas) :
       includes(toLowerCase(line), toLowerCase(focusAreas[k]))

\* lines 106-108: Array.prototype.filter keeps the order and the repeats
relevantConceptsOf(lines, focusAreas) ==
  LET P(line) == lineIsRelevant(line, focusAreas) IN SelectSeq(lines, P)

\* a mutant of availableTopics: the text after the colon is listed
availableTopicsFromBody(lines) ==
  LET entry(line) ==
        LET parts == split(line, ":")
        IN IF Len(parts) >= 2 THEN trim(parts[2]) ELSE <<>>
      topics == SelectSeq(lines, matchesKA)
  IN join([i \in 1..Len(topics) |-> entry(topics[i])], <<",", " ">>)

\* lines 111-117: filter, then map to parts[0].trim(), then join(', ')
availableTopicsOf(lines) ==
  LET entry(line) == trim(split(line, ":")[1])
      topics == SelectSeq(lines, matchesKA)
  IN join([i \in 1..Len(topics) |-> entry(topics[i])], <<",", " ">>)

\* lines 127-128: the title shown for a concept line
conceptTitleOf(concept) == trim(replaceKA(split(concept, ":")[1]))

\* a mutant of conceptIndex: week % length
conceptIndexOffByOne(week, length) == week % length

\* line 125
conceptIndex(week, length) == (week - 1) % length

\* lines 126-134: the text one iteration appends to plan
weekBlock(week, relevantConcepts, role) ==
  LET concept == relevantConcepts[conceptIndex(week, Len(relevantConcepts)) + 1]
  IN << PlanLine("blank", 0, <<>>, ""),
        PlanLine("week", week, <<>>, ""),
        PlanLine("focus", 0, conceptTitleOf(concept), ""),
        PlanLine("study", 0, <<>>, ""),
        PlanLine("practice", 0, <<>>, ""),
        PlanLine("implementation", 0, <<>>, role) >>

\* lines 123-136: for (week = 1; week <= weeks; week++), weeks in 1/Denom units
RECURSIVE weekLoop(_, _, _, _)
weekLoop(week, weeks, relevantConcepts, role) ==
  IF week * Denom <= weeks
    THEN weekBlock(week, relevantConcepts, role)
           \o weekLoop(week + 1, weeks, relevantConcepts, role)
    ELSE <<>>

NoMessage == [head |-> "", focusAreas |-> <<>>, availableTopics |-> <<>>]

\* lines 103-137; threw = TRUE is the Error of lines 119-120
generateWeeklyPlan(concepts, role, weeks, focusAreas) ==
  LET lines == split(concepts, "\n")
      relevantConcepts == relevantConceptsOf(lines, focusAreas)
  IN IF Len(relevantConcepts) = 0
       THEN [threw |-> TRUE,
             message |-> [head |-> "No concepts found matching focus areas",
                          focusAreas |-> join(focusAreas, <<",", " ">>),
                          availableTopics |-> availableTopicsOf(lines)],
             relevantConcepts |-> relevantConcepts,
             plan |-> <<>>]
       ELSE [threw |-> FALSE,
             message |-> NoMessage,
             relevantConcepts |-> relevantConcepts,
             plan |-> weekLoop(1, weeks, relevantConcepts, role)]

(***************************************************************************)
(* Inputs of the generateWeeklyPlan specification.                         *)
(***************************************************************************)
LineTesting == <<"K","A"," ","1"," ","-"," ","T","e","s","t","i","n","g",":"," ","u","n","i","t"," ","t","e","s","t","s">>
LineScaling == <<"K","A"," ","2"," ","-"," ","S","c","a","l","i","n","g",":"," ","l","o","a","d"," ","b","a","l","a","n","c","i","n","g">>
LineApi == <<"K","A","3","-","A","P","I"," ",":"," ","R","E","S","T">>
LineLowerMarker == <<"k","a"," ","4"," ","-"," ","T","e","s","t","i","n","g",":"," ","x">>
LineCaching == <<"K","A"," ","5"," ","-"," ","C","a","c","h","i","n","g">>
LineVocab == {LineTesting, LineScaling, LineApi, LineLowerMarker, LineCaching}

FocusTest == <<"t","e","s","t">>
FocusScal == <<"S","C","A","L">>
FocusRest == <<"r","e","s","t">>
FocusNone == <<"z","z","z">>
FocusEmpty == <<>>
FocusVocab == {FocusTest, FocusScal, FocusRest, FocusNone, FocusEmpty}

SeqsUpTo(S, lo, hi) == UNION {[1..n -> S] : n \in lo..hi}

\* a knowledge-base document: its lines joined by newlines
Document(lines) == join(lines, <<"\n">>)

\* knowledge bases tried by the generateWeeklyPlan specification: every one of
\* up to MaxLines lines, and two longer ones (a topic twice; three topics
\* and a line that is no topic entry)
PlanDocuments ==
  SeqsUpTo(LineVocab, 0, MaxLines)
    \cup {<<LineTesting, LineApi, LineTesting>>,
          <<LineTesting, LineLowerMarker, LineScaling, LineCaching>>}

\* focusAreas lists tried by the generateWeeklyPlan specification: every list
\* of up to MaxFocus entries, and the two-keyword list of the documented example
PlanFocusAreas ==
  SeqsUpTo(FocusVocab, 1, MaxFocus) \cup {<<FocusTest, FocusScal>>}

\* weeks tried by the generateWeeklyPlan specification, in 1/Denom units:
\* the whole numbers 1..MaxWeeks, the schema's maximum, and one non-integer
PlanWeeks ==
  {Denom * n : n \in 1..MaxWeeks} \cup {Denom * WeeksMax} \cup {Denom * 2 + 1}

(***************************************************************************)
(* Paths (path.join, startsWith). A path is its sequence of segments; the  *)
(* code's startsWith compares characters, which for the fixed file names   *)
(* the server uses agrees with the comparison of whole segments.           *)
(***************************************************************************)
RECURSIVE normalize(_, _)
normalize(acc, rest) ==
  IF Len(rest) = 0 THEN acc
  ELSE IF Head(rest) = ".."
    THEN normalize(IF Len(acc) > 0 THEN SubSeq(acc, 1, Len(acc) - 1) ELSE acc,
                   Tail(rest))
    ELSE normalize(Append(acc, Head(rest)), Tail(rest))

\* path.join
pathJoin(base, segments) == normalize(<<>>, base \o segments)

\* String.prototype.startsWith on paths
startsWith(path, prefix) ==
  Len(prefix) <= Len(path) /\ SubSeq(path, 1, Len(prefix)) = prefix

\* __dirname: the directory of the running module, src/ when the TypeScript
\* is run in place, the compiler's output directory when it is compiled
Deployments == {<<"app", "src">>, <<"app", "build">>}

\* line 44
projectRootOf(dir) == pathJoin(dir, <<"..">>)
\* line 45
conceptsPathOf(dir) == pathJoin(projectRootOf(dir), <<"src", "concepts.md">>)
\* line 46
studyPlanPathOf(dir) == pathJoin(projectRootOf(dir), <<"src", "study-plan.md">>)
\* line 54
srcDirOf(dir) == pathJoin(projectRootOf(dir), <<"src">>)
\* line 166
resourceConceptsPathOf(dir) == pathJoin(dir, <<"concepts.md">>)
\* line 197
resourceStudyPlanPathOf(dir) == pathJoin(dir, <<"study-plan.md">>)

\* line 55: the handler's sandbox check
sandboxCheck(dir) ==
  /\ startsWith(conceptsPathOf(dir), srcDirOf(dir))
  /\ startsWith(studyPlanPathOf(dir), srcDirOf(dir))

FilePaths(dir) ==
  {conceptsPathOf(dir), studyPlanPathOf(dir),
   resourceConceptsPathOf(dir), resourceStudyPlanPathOf(dir)}

(***************************************************************************)
(* The tool's input schema (lines 28-32), as zod checks it.                *)
(***************************************************************************)
\* z.number().min(1).max(52): any number in the range, whole or not
weeksDurationAccepted(weeksDuration) ==
  /\ weeksDuration >= WeeksMin * Denom
  /\ weeksDuration <= WeeksMax * Denom

schemaAccepts(request) ==
  /\ request.role \in Roles
  /\ weeksDurationAccepted(request.weeksDuration)
  /\ Len(request.focusAreas) >= FocusMin
  /\ Len(request.focusAreas) <= FocusMax

(***************************************************************************)
(* The handler's template literal (lines 62-76) and its responses.         *)
(***************************************************************************)
\* role.toUpperCase()
roleToUpperCase(role) ==
  CASE role = "frontend" -> "FRONTEND"
    [] role = "backend" -> "BACKEND"
    [] role = "fullstack" -> "FULLSTACK"
    [] role = "devops" -> "DEVOPS"
    [] role = "ml-engineer" -> "ML-ENGINEER"
    [] OTHER -> role

\* lines 62-76, given the text generateWeeklyPlan returned
studyPlanContentOf(role, date, weeksDuration, focusAreas, plan) ==
  << PlanLine("title", 0, <<>>, roleToUpperCase(role)),
     PlanLine("generated", 0, date, ""),
     PlanLine("duration", weeksDuration, <<>>, ""),
     PlanLine("blank", 0, <<>>, ""),
     PlanLine("focusHeading", 0, <<>>, "") >>
  \o [i \in 1..Len(focusAreas) |-> PlanLine("focusArea", 0, focusAreas[i], "")]
  \o << PlanLine("blank", 0, <<>>, ""),
        PlanLine("weeklyHeading", 0, <<>>, "") >>
  \o plan
  \o << PlanLine("blank", 0, <<>>, ""),
        PlanLine("resourcesHeading", 0, <<>>, ""),
        PlanLine("resourceConcepts", 0, <<>>, ""),
        PlanLine("resourcePractices", 0, <<>>, ""),
        PlanLine("resourceProjects", 0, <<>>, "") >>

\* new Date().toISOString().split('T')[0]: the clock's date
Dates == {<<"2","0","2","4","-","0","6","-","0","1">>}

NoError == [name |-> "", op |-> "", message |-> NoMessage]
\* the Error of line 56
AccessDenied == [name |-> "AccessDenied", op |-> "", message |-> NoMessage]
\* the Error of lines 119-120
NoMatchingTopics(message) == [name |-> "NoMatchingTopics", op |-> "", message |-> message]
\* a rejected fs promise: code is ENOENT, EACCES, ENOSPC ..., op the failing call
IOError(code, op) == [name |-> code, op |-> op, message |-> NoMessage]

NoResponse == [kind |-> "none", preview |-> <<>>, error |-> NoError]

\* lines 81-88; the preview is cut in the units the text is modelled in (lines)
successResponse(content) ==
  [kind |-> "success",
   preview |-> SubSeq(content, 1, Min(PreviewLen, Len(content))),
   error |-> NoError]

\* a mutant of the catch block: the error is thrown on
catchBlockRethrows(error) == [kind |-> "thrown", preview |-> <<>>, error |-> error]

\* lines 89-97
catchBlock(error) == [kind |-> "error", preview |-> <<>>, error |-> error]

(***************************************************************************)
(* Files and resources.                                                    *)
(***************************************************************************)
Absent == [exists |-> FALSE, data |-> <<>>]
File(data) == [exists |-> TRUE, data |-> data]

\* line 179
ConceptsFallback == <<"#"," ","S","o","f","t","w","a","r","e"," ","E","n","g","i","n","e","e","r","i","n","g"," ","C","o","n","c","e","p","t","s","\n","\n","N","o"," ","c","o","n","c","e","p","t","s"," ","a","v","a","i","l","a","b","l","e"," ","y","e","t",".">>

\* line 210
StudyPlanFallback ==
  << PlanLine("fallbackTitle", 0, <<>>, ""),
     PlanLine("blank", 0, <<>>, ""),
     PlanLine("fallbackBody", 0, <<>>, "") >>

\* fs.writeFile's write(2) at offset 0 of a file opened earlier: the bytes
\* beyond the written ones stay
overwrite(old, data) == data \o SubSeq(old, Len(data) + 1, Len(old))

\* what a failing write may have written before it failed: nothing, or a
\* proper prefix (one prefix length stands for all)
PartialLengths(data) == {0, Len(data) \div 2}

(***************************************************************************)
(* Inputs of the server specification.                                     *)
(***************************************************************************)
Request(role, weeksDuration, focusAreas) ==
  [role |-> role, weeksDuration |-> weeksDuration, focusAreas |-> focusAreas]

NoRequest == Request("", 0, <<>>)

ToolRequests ==
  { Request("ml-engineer", Denom * 2, <<FocusTest, FocusScal>>),
    Request("backend", Denom * 2 + 1, <<FocusScal>>),
    Request("devops", Denom * 1, <<FocusNone>>),
    Request("designer", Denom * 1, <<FocusTest>>),
    Request("frontend", 0, <<FocusTest>>),
    Request("frontend", Denom * WeeksMax + 1, <<FocusTest>>),
    Request("frontend", Denom * 1, <<>>),
    Request("frontend", Denom * 1, [i \in 1..(FocusMax + 1) |-> FocusTest]) }

KnowledgeBases ==
  { Document(<<LineTesting, LineScaling>>), Document(<<LineCaching, LineLowerMarker>>) }

ResourceUris == {"concepts://src", "study-plan://src"}

Procs == 1..NumProcs

VARIABLES
  \* generateWeeklyPlan specification: the call's arguments and its outcome
  planArgs, planResult,
  \* the deployment and the file system
  dirname, files,
  \* generateStudyPlan handlers: position, arguments, locals, response
  pc, args, conceptsContent, studyPlanContent, response,
  \* whether the handler's writeFile has changed the plan file
  touched,
  \* tool invocations so far
  calls,
  \* the resource handler's response on its way to the caller
  resourceResponse,
  \* the text of the writeFile that completed last
  lastWritten

planVars == <<planArgs, planResult>>
serverVars == <<dirname, files, pc, args, conceptsContent, studyPlanContent,
                response, touched, calls, resourceResponse, lastWritten>>
vars == <<planArgs, planResult, dirname, files, pc, args, conceptsContent,
          studyPlanContent, response, touched, calls, resourceResponse, lastWritten>>

NoResult == [threw |-> FALSE,
             message |-> [head |-> "pending", focusAreas |-> <<>>, availableTopics |-> <<>>],
             relevantConcepts |-> <<>>,
             plan |-> <<>>]

NoPlanArgs == [lines |-> <<>>, role |-> "", weeks |-> 0, focusAreas |-> <<>>, called |-> FALSE]

NoResource == [uri |-> "", text |-> <<>>, path |-> <<>>, checked |-> FALSE, io |-> ""]

Idle ==
  /\ pc = [p \in Procs |-> "idle"]
  /\ args = [p \in Procs |-> NoRequest]
  /\ conceptsContent = [p \in Procs |-> Absent]
  /\ studyPlanContent = [p \in Procs |-> <<>>]
  /\ response = [p \in Procs |-> NoResponse]
  /\ touched = [p \in Procs |-> FALSE]
  /\ calls = 0
  /\ resourceResponse = NoResource
  /\ lastWritten = Absent

(***************************************************************************)
(* The generateWeeklyPlan specification: the function applied to bounded   *)
(* inputs.                                                                 *)
(***************************************************************************)
PlanInit ==
  /\ planArgs \in [lines : PlanDocuments,
                   role : {"backend"},
                   weeks : PlanWeeks,
                   focusAreas : PlanFocusAreas,
                   called : {FALSE}]
  /\ planResult = NoResult
  /\ dirname = <<"app", "src">>
  /\ files = [f \in FilePaths(dirname) |-> Absent]
  /\ Idle

CallGenerateWeeklyPlan ==
  /\ ~planArgs.called
  /\ planArgs' = [planArgs EXCEPT !.called = TRUE]
  /\ planResult' = generateWeeklyPlan(Document(planArgs.lines), planArgs.role,
                                      planArgs.weeks, planArgs.focusAreas)
  /\ UNCHANGED serverVars

SpecPlan == PlanInit /\ [][CallGenerateWeeklyPlan]_vars

(***************************************************************************)
(* The server specification.                                               *)
(***************************************************************************)
Init ==
  /\ planArgs = NoPlanArgs
  /\ planResult = NoResult
  /\ dirname \in Deployments
  /\ \E kb \in {File(d) : d \in KnowledgeBases} \cup {Absent},
        rkb \in {File(Document(<<LineTesting, LineScaling>>)), Absent} :
       files = [f \in FilePaths(dirname) |->
                  IF f = conceptsPathOf(dirname) THEN kb
                  ELSE IF f = resourceConceptsPathOf(dirname) THEN rkb
                  ELSE Absent]
  /\ Idle

\* no resource response is waiting to be delivered
Ready == resourceResponse = NoResource

\* The SDK validates the arguments (lines 28-32) and, only if they pass, calls
\* the handler with them, which runs to its first await (lines 35-59).
CallTool(p, request) ==
  /\ Ready
  /\ pc[p] = "idle"
  \* the handlers are interchangeable: the lowest free one takes the call
  /\ \A q \in Procs : q < p => pc[q] # "idle"
  /\ calls < MaxCalls
  /\ calls' = calls + 1
  /\ IF ~schemaAccepts(request)
       THEN /\ pc' = [pc EXCEPT ![p] = "rejected"]
            /\ UNCHANGED <<args, response>>
       ELSE IF ~sandboxCheck(dirname)
         THEN /\ pc' = [pc EXCEPT ![p] = "done"]
              /\ args' = [args EXCEPT ![p] = request]
              /\ response' = [response EXCEPT ![p] = catchBlock(AccessDenied)]
         ELSE /\ pc' = [pc EXCEPT ![p] = "reading"]
              /\ args' = [args EXCEPT ![p] = request]
              /\ response' = response
  /\ UNCHANGED <<planVars, dirname, files, conceptsContent, studyPlanContent,
                 touched, resourceResponse, lastWritten>>

\* line 59 resolves; lines 62-76 run, and line 79 starts the write
ReadConceptsOk(p) ==
  /\ Ready
  /\ pc[p] = "reading"
  /\ files[conceptsPathOf(dirname)].exists
  /\ LET content == files[conceptsPathOf(dirname)].data
         result == generateWeeklyPlan(content, args[p].role,
                                      args[p].weeksDuration, args[p].focusAreas)
     IN /\ conceptsContent' = [conceptsContent EXCEPT ![p] = File(content)]
        /\ IF result.threw
             THEN /\ pc' = [pc EXCEPT ![p] = "done"]
                  /\ response' = [response EXCEPT
                                    ![p] = catchBlock(NoMatchingTopics(result.message))]
                  /\ UNCHANGED studyPlanContent
             ELSE /\ pc' = [pc EXCEPT ![p] = "opening"]
                  /\ \E date \in Dates :
                       studyPlanContent' =
                         [studyPlanContent EXCEPT
                            ![p] = studyPlanContentOf(args[p].role, date,
                                     args[p].weeksDuration, args[p].focusAreas,
                                     result.plan)]
                  /\ UNCHANGED response
  /\ UNCHANGED <<planVars, dirname, files, args, touched, calls,
                 resourceResponse, lastWritten>>

\* line 59 rejects: the file is missing (ENOENT) or unreadable (EACCES)
ReadConceptsFail(p) ==
  /\ Ready
  /\ pc[p] = "reading"
  /\ pc' = [pc EXCEPT ![p] = "done"]
  /\ response' = [response EXCEPT
       ![p] = catchBlock(IOError(IF files[conceptsPathOf(dirname)].exists
                                   THEN "EACCES" ELSE "ENOENT", "read"))]
  /\ UNCHANGED <<planVars, dirname, files, args, conceptsContent,
                 studyPlanContent, touched, calls, resourceResponse, lastWritten>>

\* line 79, first half: fs.writeFile opens the file with flag 'w', which
\* creates it or truncates it to nothing
WriteOpenOk(p) ==
  /\ Ready
  /\ pc[p] = "opening"
  /\ pc' = [pc EXCEPT ![p] = "writing"]
  /\ files' = [files EXCEPT ![studyPlanPathOf(dirname)] = File(<<>>)]
  /\ touched' = [touched EXCEPT ![p] = TRUE]
  /\ UNCHANGED <<planVars, dirname, args, conceptsContent, studyPlanContent,
                 response, calls, resourceResponse, lastWritten>>

\* the open fails (EACCES, a missing directory): nothing is changed
WriteOpenFail(p) ==
  /\ Ready
  /\ pc[p] = "opening"
  /\ pc' = [pc EXCEPT ![p] = "done"]
  /\ response' = [response EXCEPT ![p] = catchBlock(IOError("EACCES", "open"))]
  /\ UNCHANGED <<planVars, dirname, files, args, conceptsContent,
                 studyPlanContent, touched, calls, resourceResponse, lastWritten>>

\* line 79, second half: the text is written from the start of the opened
\* file; lines 81-88 return the preview
WriteDataOk(p) ==
  /\ Ready
  /\ pc[p] = "writing"
  /\ pc' = [pc EXCEPT ![p] = "done"]
  /\ files' = [files EXCEPT ![studyPlanPathOf(dirname)] =
                 File(overwrite(files[studyPlanPathOf(dirname)].data,
                                studyPlanContent[p]))]
  /\ lastWritten' = File(studyPlanContent[p])
  /\ response' = [response EXCEPT ![p] = successResponse(studyPlanContent[p])]
  /\ UNCHANGED <<planVars, dirname, args, conceptsContent, studyPlanContent,
                 touched, calls, resourceResponse>>

\* the write fails (ENOSPC, EIO) after writing n lines of the text
WriteDataFail(p, n) ==
  /\ Ready
  /\ pc[p] = "writing"
  /\ pc' = [pc EXCEPT ![p] = "done"]
  /\ files' = [files EXCEPT ![studyPlanPathOf(dirname)] =
                 File(overwrite(files[studyPlanPathOf(dirname)].data,
                                SubSeq(studyPlanContent[p], 1, n)))]
  /\ response' = [response EXCEPT ![p] = catchBlock(IOError("ENOSPC", "write"))]
  /\ UNCHANGED <<planVars, dirname, args, conceptsContent, studyPlanContent,
                 touched, calls, resourceResponse, lastWritten>>

\* the response has gone to the caller; the handler's locals are gone
Return(p) ==
  /\ Ready
  /\ pc[p] \in {"done", "rejected"}
  /\ pc' = [pc EXCEPT ![p] = "idle"]
  /\ args' = [args EXCEPT ![p] = NoRequest]
  /\ conceptsContent' = [conceptsContent EXCEPT ![p] = Absent]
  /\ studyPlanContent' = [studyPlanContent EXCEPT ![p] = <<>>]
  /\ response' = [response EXCEPT ![p] = NoResponse]
  /\ touched' = [touched EXCEPT ![p] = FALSE]
  /\ UNCHANGED <<planVars, dirname, files, calls, resourceResponse, lastWritten>>

\* lines 164-183 and 195-214: the read, with no check of the path before it,
\* and the fallback text when it fails
resourceHandler(path, fallback, readFails) ==
  [text |-> IF files[path].exists /\ ~readFails THEN files[path].data ELSE fallback,
   path |-> path,
   checked |-> FALSE,
   io |-> IF ~files[path].exists THEN "ENOENT"
          ELSE IF readFails THEN "EACCES" ELSE "ok"]

ReadResource(uri, readFails) ==
  /\ Ready
  /\ LET r == IF uri = "concepts://src"
                THEN resourceHandler(resourceConceptsPathOf(dirname),
                                     ConceptsFallback, readFails)
                ELSE resourceHandler(resourceStudyPlanPathOf(dirname),
                                     StudyPlanFallback, readFails)
     IN resourceResponse' = [uri |-> uri, text |-> r.text, path |-> r.path,
                             checked |-> r.checked, io |-> r.io]
  /\ UNCHANGED <<planVars, dirname, files, pc, args, conceptsContent,
                 studyPlanContent, response, touched, calls, lastWritten>>

\* the resource's contents have gone to the caller
ResourceDone ==
  /\ ~Ready
  /\ resourceResponse' = NoResource
  /\ UNCHANGED <<planVars, dirname, files, pc, args, conceptsContent,
                 studyPlanContent, response, touched, calls, lastWritten>>

Next ==
  \/ \E p \in Procs, request \in ToolRequests : CallTool(p, request)
  \/ \E p \in Procs : ReadConceptsOk(p)
  \/ \E p \in Procs : ReadConceptsFail(p)
  \/ \E p \in Procs : WriteOpenOk(p)
  \/ \E p \in Procs : WriteOpenFail(p)
  \/ \E p \in Procs : WriteDataOk(p)
  \/ \E p \in Procs : \E n \in PartialLengths(studyPlanContent[p]) : WriteDataFail(p, n)
  \/ \E p \in Procs : Return(p)
  \/ \E uri \in ResourceUris, readFails \in BOOLEAN : ReadResource(uri, readFails)
  \/ ResourceDone

Spec == Init /\ [][Next]_vars

(***************************************************************************)
(* What the documentation says of topics, stated without the code's        *)
(* toLowerCase, includes, filter and replace.                              *)
(***************************************************************************)
SameLetter(c, d) ==
  c = d \/ \E i \in 1..26 : {c, d} = {LowerLetters[i], UpperLetters[i]}

\* key occurs in text at some offset, letters compared without regard to case
ContainsIgnoringCase(text, key) ==
  \E off \in 0..(Len(text) - Len(key)) :
    \A k \in 1..Len(key) : SameLetter(text[off + k], key[k])

\* the positions of the topic lines that some focus area matches
MatchedIndexes(lines, focusAreas) ==
  {i \in 1..Len(lines) :
     /\ matchesKA(lines[i])
     /\ \E k \in 1..Len(focusAreas) : ContainsIgnoringCase(lines[i], focusAreas[k])}

\* the lines at those positions, in document order, repeats kept
MatchedTopics(lines, focusAreas) ==
  LET S == MatchedIndexes(lines, focusAreas)
  IN [j \in 1..Cardinality(S) |->
        lines[CHOOSE i \in S : Cardinality({x \in S : x <= i}) = j]]

\* the text between the "-" after the code and the first colon, trimmed
TopicTitle(line) ==
  trim(SubSeq(line, MatchKA(line) + 1, IndexOf(line, ":", 1) - 1))

\* the week and focus lines of a plan, in order
ScheduleEntries(plan) ==
  LET isEntry(l) == l.kind \in {"week", "focus"} IN SelectSeq(plan, isEntry)

IsWholeNumber(n) == n % Denom = 0

(***************************************************************************)
(* Claims about generateWeeklyPlan, checked under SpecPlan.                *)
(***************************************************************************)

\* C1: for a non-empty sequence of matched topics and a whole weeksDuration N
\* in 1..52, the plan has exactly N week entries numbered 1..N in order, and
\* week w names the title of matched topic (w-1) mod length.
C1_RoundRobinSchedule ==
  planArgs.called =>
    LET matched == MatchedTopics(planArgs.lines, planArgs.focusAreas)
        N == planArgs.weeks \div Denom
        entries == ScheduleEntries(planResult.plan)
    IN (/\ Len(matched) > 0
        /\ IsWholeNumber(planArgs.weeks)
        /\ N \in WeeksMin..WeeksMax)
       => /\ ~planResult.threw
          /\ Len(entries) = 2 * N
          /\ \A w \in 1..N :
               /\ entries[2 * w - 1] = PlanLine("week", w, <<>>, "")
               /\ entries[2 * w] =
                    PlanLine("focus", 0,
                             TopicTitle(matched[((w - 1) % Len(matched)) + 1]), "")

\* C1 witness: two different matched topics are cycled over three weeks
C1_Witness ==
  /\ planArgs.called
  /\ planArgs.weeks = 3 * Denom
  /\ LET matched == MatchedTopics(planArgs.lines, planArgs.focusAreas)
     IN /\ Len(matched) = 2
        /\ TopicTitle(matched[1]) # TopicTitle(matched[2])
  /\ Len(ScheduleEntries(planResult.plan)) = 6

\* C10: the matched-topic sequence used for scheduling holds exactly the
\* recognized topic lines whose whole raw text contains some focus area,
\* compared without regard to case, in document order and with repeats kept.
C10_MatchedTopicsExact ==
  planArgs.called =>
    planResult.relevantConcepts =
      MatchedTopics(planArgs.lines, planArgs.focusAreas)

\* C10 witness: a topic line is matched only because case is ignored, another
\* topic line is left out, and a line that is no topic entry holds the keyword
C10_Witness ==
  /\ planArgs.called
  /\ Len(planResult.relevantConcepts) >= 1
  /\ \E i \in 1..Len(planArgs.lines) :
       /\ matchesKA(planArgs.lines[i])
       /\ i \notin MatchedIndexes(planArgs.lines, planArgs.focusAreas)
  /\ \E i \in 1..Len(planArgs.lines), k \in 1..Len(planArgs.focusAreas) :
       /\ ~matchesKA(planArgs.lines[i])
       /\ ContainsIgnoringCase(planArgs.lines[i], planArgs.focusAreas[k])
  /\ \E i \in MatchedIndexes(planArgs.lines, planArgs.focusAreas) :
       \A k \in 1..Len(planArgs.focusAreas) :
         ~includes(planArgs.lines[i], planArgs.focusAreas[k])

(***************************************************************************)
(* Claims about the server, checked under Spec.                            *)
(***************************************************************************)
InFlight(p) == pc[p] \in {"reading", "opening", "writing"}
Quiescent == \A p \in Procs : ~InFlight(p)

\* C2: when the focus areas match no topic of the knowledge base that was
\* read, the invocation ends in the NoMatchingTopics error, with no schedule
\* rendered and nothing written, and the message holds every topic's title.
C2_NoMatchIsAnError ==
  \A p \in Procs :
    LET lines == split(conceptsContent[p].data, "\n") IN
      (/\ conceptsContent[p].exists
       /\ Len(MatchedTopics(lines, args[p].focusAreas)) = 0)
      => /\ pc[p] = "done"
         /\ response[p].kind = "error"
         /\ response[p].error.name = "NoMatchingTopics"
         /\ studyPlanContent[p] = <<>>
         /\ ~touched[p]
         /\ \A i \in 1..Len(lines) :
              matchesKA(lines[i]) =>
                includes(response[p].error.message.availableTopics,
                         TopicTitle(lines[i]))

\* C2 witness: a knowledge base with two topics, none of them matched
C2_Witness ==
  \E p \in Procs :
    /\ pc[p] = "done"
    /\ conceptsContent[p] = File(Document(<<LineTesting, LineScaling>>))
    /\ args[p].focusAreas = <<FocusNone>>
    /\ response[p].error.name = "NoMatchingTopics"

\* C3: an invocation that ends in an error response has not changed the
\* persisted plan document.
C3_ErrorLeavesPlanUntouched ==
  \A p \in Procs :
    (pc[p] = "done" /\ response[p].kind = "error") => ~touched[p]

\* C4: an invocation that has ended returned a text payload, the success
\* message with the preview of the rendered plan or an error message, and no
\* error left the handler as an exception.
C4_AlwaysTextPayload ==
  \A p \in Procs :
    /\ pc[p] = "done" =>
         \/ /\ response[p].kind = "success"
            /\ studyPlanContent[p] # <<>>
            /\ response[p].preview =
                 SubSeq(studyPlanContent[p], 1, Min(PreviewLen, Len(studyPlanContent[p])))
         \/ /\ response[p].kind = "error"
            /\ response[p].error # NoError
    /\ InFlight(p) => response[p] = NoResponse

\* C4 witness: one invocation has succeeded and another has failed in its write
C4_Witness ==
  \E p, q \in Procs :
    /\ pc[p] = "done" /\ response[p].kind = "success"
    /\ pc[q] = "done" /\ response[q].error.op = "write"

\* C5: a read of study-plan://src, made while no generation is running and
\* the file the tool writes holds just what the last successful generation
\* wrote (or does not exist when none has succeeded), returns that text, or
\* the fallback when none has succeeded.
C5_ResourceReadsLatestPlan ==
  (/\ resourceResponse.uri = "study-plan://src"
   /\ resourceResponse.io # "EACCES"
   /\ Quiescent
   /\ files[studyPlanPathOf(dirname)] = lastWritten)
  => resourceResponse.text =
       IF lastWritten.exists THEN lastWritten.data ELSE StudyPlanFallback

\* C6: once the invocations have all ended in success, the persisted plan
\* document is in full the text of the write that completed last.
C6_LastWriteWins ==
  (\A p \in Procs : pc[p] = "done" /\ response[p].kind = "success")
  => files[studyPlanPathOf(dirname)] = lastWritten

\* C7: every read and write is preceded by the sandbox check, and its path
\* lies within the sandbox root.
C7_EveryAccessIsChecked ==
  /\ \A p \in Procs : InFlight(p) => sandboxCheck(dirname)
  /\ resourceResponse # NoResource =>
       /\ resourceResponse.checked
       /\ startsWith(resourceResponse.path, srcDirOf(dirname))

\* C8: at every read site a failed read yields the fallback placeholder and
\* no error: the knowledge-base read of generateStudyPlan and both resources.
C8_FailedReadGivesFallback ==
  /\ \A p \in Procs : response[p].error.op # "read"
  /\ (resourceResponse # NoResource /\ resourceResponse.io # "ok") =>
       resourceResponse.text =
         IF resourceResponse.uri = "concepts://src"
           THEN ConceptsFallback ELSE StudyPlanFallback
  /\ (resourceResponse # NoResource /\ resourceResponse.io = "ok") =>
       resourceResponse.text = files[resourceResponse.path].data

\* C9: a request that reaches the pipeline has a role of the enumeration, a
\* whole weeksDuration in 1..52 and 1 to 5 focus areas, and the plan it
\* renders has as many weeks as weeksDuration.
C9_OnlyValidRequestsRun ==
  \A p \in Procs :
    (pc[p] \notin {"idle", "rejected"}) =>
      /\ args[p].role \in Roles
      /\ IsWholeNumber(args[p].weeksDuration)
      /\ args[p].weeksDuration \div Denom \in WeeksMin..WeeksMax
      /\ Len(args[p].focusAreas) \in FocusMin..FocusMax
      /\ studyPlanContent[p] # <<>> =>
           Len(ScheduleEntries(studyPlanContent[p])) * Denom
             = 2 * args[p].weeksDuration

====
